---- MODULE Spec2Model ----
(***************************************************************************)
(* RAG Token Analyzer: the text-analysis pipeline of TokenAnalyzer.jsx.    *)
(*                                                                         *)
(* A JavaScript string is modelled as a sequence of UTF-16 code units,     *)
(* each code unit a one-element TLA+ string ("A", " ", "\n", ...).  The    *)
(* code unit U+2581 (the SentencePiece marker of the Gemini pattern) is    *)
(* written "U+2581".  Indices are 1-based here and 0-based in the source.  *)
(***************************************************************************)
EXTENDS Integers, Sequences, FiniteSets, TLC

VARIABLES
    content,     \* useState('')        the text of the input area
    chunkSize,   \* useState(100)       the selected chunk size
    activeTab,   \* useState('overview')
    analysis,    \* useMemo(..., [content, chunkSize]); NULL when absent
    hints,       \* useMemo(..., [analysis, chunkSize])
    input,       \* arguments of the function call under examination
    remaining,   \* local `remaining` of a tokenizer's scan loop
    tokens,      \* local `tokens` of a tokenizer's scan loop
    output,      \* value returned by the function call under examination
    pc           \* position of the function call: "loop", "call", "done"

vars == <<content, chunkSize, activeTab, analysis, hints,
          input, remaining, tokens, output, pc>>

uiVars == <<content, chunkSize, activeTab, analysis, hints>>
callVars == <<input, remaining, tokens, output, pc>>

\* null: the absent analysis, the result of a call not yet returned
NULL == [null |-> TRUE]
NoMatch == -1

(***************************************************************************)
(* Character classes of the regular expressions.                           *)
(***************************************************************************)
UpperChars == {"A","B","C","D","E","F","G","H","I","J","K","L","M",
               "N","O","P","Q","R","S","T","U","V","W","X","Y","Z"}
LowerChars == {"a","b","c","d","e","f","g","h","i","j","k","l","m",
               "n","o","p","q","r","s","t","u","v","w","x","y","z"}
DigitChars == {"0","1","2","3","4","5","6","7","8","9"}
\* \s of the model's alphabet
SpaceChars == {" ", "\n", "\t"}
\* [.,!?;:'"()\[\]{}]
PunctChars == {".", ",", "!", "?", ";", ":", "'", "\"", "(", ")", "[", "]", "{", "}"}
\* \w
WordChars == UpperChars \cup LowerChars \cup DigitChars \cup {"_"}
LetterChars == UpperChars \cup LowerChars
Marker == "U+2581"

\* The code units the model's texts are written with.
Chars == {"A", "B", "a", "b", "1", " ", "\n", ".", "!", "#", "_", Marker}
\* [^\s\w]
SpecialChars == Chars \ (SpaceChars \cup WordChars)

Min(a, b) == IF a <= b THEN a ELSE b
Max(a, b) == IF a >= b THEN a ELSE b

\* s.slice(n): s without its first n code units.
Slice(s, n) == SubSeq(s, n + 1, Len(s))

\* The number of leading code units of s that belong to class C (a greedy C*).
RunLen(s, C) ==
    LET ks == {k \in 0..Len(s) : \A m \in 1..k : s[m] \in C}
    IN  CHOOSE k \in ks : \A j \in ks : j <= k

\* /^C*/ : a '*' written for the '+', which also matches the empty string.
MatchStar(s, C) == RunLen(s, C)
\* /^C+/
MatchPlus(s, C) == IF RunLen(s, C) >= 1 THEN RunLen(s, C) ELSE NoMatch
\* /^C/
MatchOne(s, C) == IF Len(s) >= 1 /\ s[1] \in C THEN 1 ELSE NoMatch
\* /^C{1,n}/
MatchUpTo(s, C, n) == IF RunLen(s, C) >= 1 THEN Min(RunLen(s, C), n) ELSE NoMatch
\* /^[A-Z][a-z]+/
MatchCapWord(s) ==
    IF Len(s) >= 1 /\ s[1] \in UpperChars /\ RunLen(Slice(s, 1), LowerChars) >= 1
    THEN 1 + RunLen(Slice(s, 1), LowerChars) ELSE NoMatch
\* /^[A-Z][a-z]{0,5}/
MatchCapShort(s) ==
    IF Len(s) >= 1 /\ s[1] \in UpperChars
    THEN 1 + Min(RunLen(Slice(s, 1), LowerChars), 5) ELSE NoMatch
\* /^▁?[A-Za-z]{1,6}/ : the marker is taken when letters follow it, and
\* given back (the optional group matches nothing) when they do not.
MatchPiece(s) ==
    IF Len(s) >= 1 /\ s[1] = Marker /\ RunLen(Slice(s, 1), LetterChars) >= 1
    THEN 1 + Min(RunLen(Slice(s, 1), LetterChars), 6)
    ELSE MatchUpTo(s, LetterChars, 6)

\* The index of the first pattern of ms (match lengths, in priority order)
\* that matched, 0 when none did.
FirstMatch(ms) ==
    LET hit == {k \in 1..Len(ms) : ms[k] # NoMatch}
    IN  IF hit = {} THEN 0 ELSE CHOOSE k \in hit : \A j \in hit : k <= j

\* word.slice(i, i + 3) for i = 0, 4, 8, ... : a slice one short of the stride.
RECURSIVE SplitWordShort(_)
SplitWordShort(word) ==
    IF Len(word) = 0 THEN <<>>
    ELSE <<SubSeq(word, 1, Min(3, Len(word)))>> \o SplitWordShort(Slice(word, 4))

\* word.slice(i, Math.min(i + 4, word.length)) for i = 0, 4, 8, ...
RECURSIVE SplitWord(_)
SplitWord(word) ==
    IF Len(word) = 0 THEN <<>>
    ELSE <<SubSeq(word, 1, Min(4, Len(word)))>> \o SplitWord(Slice(word, 4))

\* The patterns with /^[a-zA-Z]+/ in the place of /^[a-z]+/.
GptPatternsAnyCase(s) ==
    << MatchPlus(s, SpaceChars), MatchCapWord(s), MatchPlus(s, LetterChars),
       MatchPlus(s, DigitChars), MatchOne(s, PunctChars), MatchOne(s, SpecialChars) >>

GptPatterns(s) ==
    << MatchPlus(s, SpaceChars), MatchCapWord(s), MatchPlus(s, LowerChars),
       MatchPlus(s, DigitChars), MatchOne(s, PunctChars), MatchOne(s, SpecialChars) >>

ClaudePatterns(s) ==
    << MatchPlus(s, SpaceChars), MatchCapShort(s), MatchUpTo(s, LowerChars, 5),
       MatchPlus(s, DigitChars), MatchOne(s, PunctChars), MatchOne(s, SpecialChars) >>

GeminiPatterns(s) ==
    << MatchPiece(s), MatchPlus(s, SpaceChars), MatchPlus(s, DigitChars),
       MatchOne(s, SpecialChars) >>

(***************************************************************************)
(* One iteration of a tokenizer's while loop on a non-empty `remaining`:   *)
(* the tokens it pushes and the `remaining` it leaves.                     *)
(***************************************************************************)
GptIteration(rem) ==
    LET ms == GptPatterns(rem)
        k  == FirstMatch(ms)
        word == SubSeq(rem, 1, ms[k])
    IN  IF k = 0
        THEN [push |-> <<SubSeq(rem, 1, 1)>>, rest |-> Slice(rem, 1)]
        ELSE [push |-> IF Len(word) > 4 /\ Len(word) >= 1
                          /\ \A m \in 1..Len(word) : word[m] \in LetterChars
                       THEN SplitWord(word) ELSE <<word>>,
              rest |-> Slice(rem, Len(word))]

PlainIteration(rem, ms) ==
    LET k == FirstMatch(ms)
    IN  IF k = 0
        THEN [push |-> <<SubSeq(rem, 1, 1)>>, rest |-> Slice(rem, 1)]
        ELSE [push |-> <<SubSeq(rem, 1, ms[k])>>, rest |-> Slice(rem, ms[k])]

ClaudeIteration(rem) == PlainIteration(rem, ClaudePatterns(rem))

GeminiIteration(rem) == PlainIteration(rem, GeminiPatterns(rem))

Iteration(tk, rem) ==
    CASE tk = "gpt" -> GptIteration(rem)
      [] tk = "claude" -> ClaudeIteration(rem)
      [] tk = "gemini" -> GeminiIteration(rem)

\* The whole scan loop, from `remaining` = rem and `tokens` = acc.
RECURSIVE ScanLoop(_, _, _)
ScanLoop(tk, rem, acc) ==
    IF Len(rem) > 0
    THEN LET it == Iteration(tk, rem) IN ScanLoop(tk, it.rest, acc \o it.push)
    ELSE acc

approximateTokenize(text) == IF text = <<>> THEN <<>> ELSE ScanLoop("gpt", text, <<>>)
approximateClaudeTokenize(text) == IF text = <<>> THEN <<>> ELSE ScanLoop("claude", text, <<>>)
approximateGeminiTokenize(text) == IF text = <<>> THEN <<>> ELSE ScanLoop("gemini", text, <<>>)

\* tokens.join(''): the concatenation of a sequence of strings.
RECURSIVE Concat(_)
Concat(ts) == IF ts = <<>> THEN <<>> ELSE Head(ts) \o Concat(Tail(ts))

(***************************************************************************)
(* Texts of the model.                                                     *)
(***************************************************************************)
MaxRun == 6
MaxTail == 1

RECURSIVE Repeat(_, _)
Repeat(c, n) == IF n = 0 THEN <<>> ELSE <<c>> \o Repeat(c, n - 1)

\* Two runs of at most MaxRun equal code units, then at most MaxTail more.
TokChars == {"A", "a", "1", " ", ".", "#", "_", Marker}
RunTexts == {Repeat(c, n) : c \in TokChars, n \in 0..MaxRun}
TailTexts == {Repeat(c, n) : c \in TokChars, n \in 0..MaxTail}
TokTexts == {r1 \o r2 \o t : r1 \in RunTexts, r2 \in RunTexts, t \in TailTexts}
Tokenizers == {"gpt", "claude", "gemini"}

(***************************************************************************)
(* The scan loop of a tokenizer, one iteration per step.                   *)
(***************************************************************************)
InitTok ==
    /\ content = <<>> /\ chunkSize = 100 /\ activeTab = "overview"
    /\ analysis = NULL /\ hints = <<>>
    /\ \E tk \in Tokenizers, text \in TokTexts :
         /\ input = [tokenizer |-> tk, text |-> text]
         /\ remaining = text
         \* if (!text) return [];
         /\ pc = IF text = <<>> THEN "done" ELSE "loop"
    /\ tokens = <<>>
    /\ output = <<>>

\* One iteration of the while loop of approximateTokenize.
GptTokIterate ==
    /\ pc = "loop"
    /\ input.tokenizer = "gpt"
    /\ Len(remaining) > 0
    /\ tokens' = tokens \o GptIteration(remaining).push
    /\ remaining' = GptIteration(remaining).rest
    /\ UNCHANGED <<uiVars, input, output, pc>>

\* One iteration of the while loop of approximateClaudeTokenize.
ClaudeTokIterate ==
    /\ pc = "loop"
    /\ input.tokenizer = "claude"
    /\ Len(remaining) > 0
    /\ tokens' = tokens \o ClaudeIteration(remaining).push
    /\ remaining' = ClaudeIteration(remaining).rest
    /\ UNCHANGED <<uiVars, input, output, pc>>

\* One iteration of the while loop of approximateGeminiTokenize.
GeminiTokIterate ==
    /\ pc = "loop"
    /\ input.tokenizer = "gemini"
    /\ Len(remaining) > 0
    /\ tokens' = tokens \o GeminiIteration(remaining).push
    /\ remaining' = GeminiIteration(remaining).rest
    /\ UNCHANGED <<uiVars, input, output, pc>>

\* The loop condition fails: return tokens.
TokReturn ==
    /\ pc = "loop"
    /\ Len(remaining) = 0
    /\ output' = tokens
    /\ pc' = "done"
    /\ UNCHANGED <<uiVars, input, remaining, tokens>>

NextTok == GptTokIterate \/ ClaudeTokIterate \/ GeminiTokIterate \/ TokReturn

SpecTok == InitTok /\ [][NextTok]_vars /\ WF_vars(NextTok)

(***************************************************************************)
(* extractEntities.  A position i is a 0-based offset into the text, as    *)
(* match.index is; the code unit at offset i is text[i + 1].               *)
(***************************************************************************)
Terminators == {".", "!", "?"}

\* (?<=[.!?]\s+[^A-Z]*|^[^A-Z]*) at offset i: some j <= i has no capital in
\* text[j..i) and is either the start of the text or the end of a
\* terminator followed by one or more whitespace code units.
Lookbehind(text, i) ==
    \E j \in 0..i :
        /\ \A m \in (j + 1)..i : text[m] \notin UpperChars
        /\ \/ j = 0
           \/ \E q \in 1..(j - 1) :
                /\ text[q] \in Terminators
                /\ \A m \in (q + 1)..j : text[m] \in SpaceChars

\* /^[A-Z][a-zA-Z]+/
MatchCapName(s) ==
    IF Len(s) >= 1 /\ s[1] \in UpperChars /\ RunLen(Slice(s, 1), LetterChars) >= 1
    THEN 1 + RunLen(Slice(s, 1), LetterChars) ELSE NoMatch

\* /^(?:\s+[A-Z][a-zA-Z]+)*/ : the length of the greedy repetition.
RECURSIVE PhraseTail(_)
PhraseTail(s) ==
    LET ws == RunLen(s, SpaceChars)
        w  == MatchCapName(Slice(s, ws))
    IN  IF ws >= 1 /\ w # NoMatch
        THEN ws + w + PhraseTail(Slice(s, ws + w))
        ELSE 0

\* /^([A-Z][a-zA-Z]+(?:\s+[A-Z][a-zA-Z]+)*)/
MatchCapPhrase(s) ==
    IF MatchCapName(s) = NoMatch THEN NoMatch
    ELSE MatchCapName(s) + PhraseTail(Slice(s, MatchCapName(s)))

\* The offsets >= lastIndex at which the capitalized-phrase pattern matches.
CapMatchesFrom(text, lastIndex) ==
    {i \in lastIndex..Len(text) :
        Lookbehind(text, i) /\ MatchCapPhrase(Slice(text, i)) # NoMatch}

\* text.matchAll(capitalized-phrase pattern) and the loop over its matches:
\* the leftmost match from lastIndex on, then on from its end.
RECURSIVE CapitalizedScan(_, _)
CapitalizedScan(text, lastIndex) ==
    LET at == CapMatchesFrom(text, lastIndex)
        i  == CHOOSE k \in at : \A j \in at : k <= j
        n  == MatchCapPhrase(Slice(text, i))
    IN  IF at = {} THEN <<>>
        ELSE (IF n > 2
              THEN <<[text |-> SubSeq(text, i + 1, i + n), position |-> i]>>
              ELSE <<>>)
             \o CapitalizedScan(text, i + n)

\* \b at offset i: exactly one of the code units before and after is a \w.
WordBoundary(text, i) ==
    (i >= 1 /\ text[i] \in WordChars) # (i < Len(text) /\ text[i + 1] \in WordChars)

\* /\b([A-Z]{2,})\b/ at offset i: the longest run of two or more capitals
\* that starts and ends on a word boundary.
MatchAcronym(text, i) ==
    LET ns == {n \in 2..(Len(text) - i) :
                 /\ \A m \in 1..n : text[i + m] \in UpperChars
                 /\ WordBoundary(text, i + n)}
    IN  IF WordBoundary(text, i) /\ ns # {}
        THEN CHOOSE n \in ns : \A j \in ns : j <= n
        ELSE NoMatch

AcronymMatchesFrom(text, lastIndex) ==
    {i \in lastIndex..Len(text) : MatchAcronym(text, i) # NoMatch}

RECURSIVE AcronymScan(_, _)
AcronymScan(text, lastIndex) ==
    LET at == AcronymMatchesFrom(text, lastIndex)
        i  == CHOOSE k \in at : \A j \in at : k <= j
        n  == MatchAcronym(text, i)
    IN  IF at = {} THEN <<>>
        ELSE <<[text |-> SubSeq(text, i + 1, i + n), position |-> i]>>
             \o AcronymScan(text, i + n)

extractEntities(text) == CapitalizedScan(text, 0) \o AcronymScan(text, 0)

(***************************************************************************)
(* Calls of extractEntities on the texts made of at most MaxPieces pieces. *)
(***************************************************************************)
MaxPieces == 5

EntPieces == { <<"x">>, <<" ">>, <<".">>, <<"A", "B">>, <<"C", "d", "e">>,
               <<"C", "d", "e", " ", "F", "g">> }

RECURSIVE PieceTexts(_)
PieceTexts(n) ==
    IF n = 0 THEN {<<>>}
    ELSE PieceTexts(n - 1) \cup {t \o p : t \in PieceTexts(n - 1), p \in EntPieces}

EntTexts == PieceTexts(MaxPieces)

InitEnt ==
    /\ content = <<>> /\ chunkSize = 100 /\ activeTab = "overview"
    /\ analysis = NULL /\ hints = <<>>
    /\ \E text \in EntTexts : input = [text |-> text]
    /\ remaining = <<>> /\ tokens = <<>>
    /\ output = <<>>
    /\ pc = "call"

ExtractEntities ==
    /\ pc = "call"
    /\ output' = extractEntities(input.text)
    /\ pc' = "done"
    /\ UNCHANGED <<uiVars, input, remaining, tokens>>

NextEnt == ExtractEntities

SpecEnt == InitEnt /\ [][NextEnt]_vars

(***************************************************************************)
(* JavaScript numbers that a division produces are exact rationals         *)
(* [num, den] with den > 0; den = 0 stands for the non-finite results of   *)
(* a division by zero: 0 / 0 is NaN and n / 0 (n > 0) is Infinity.         *)
(***************************************************************************)
NaN == [num |-> 0, den |-> 0]
Infinity == [num |-> 1, den |-> 0]
Num(n) == [num |-> n, den |-> 1]
IsFinite(x) == x.den # 0

Abs(x) == IF x >= 0 THEN x ELSE -x

\* a / b for integers a >= 0 and b
Quotient(a, b) ==
    IF b = 0 THEN (IF a = 0 THEN NaN ELSE Infinity)
    ELSE IF b > 0 THEN [num |-> a, den |-> b]
    ELSE [num |-> -a, den |-> -b]
\* Math.floor(x), Math.ceil(x)
Floor(x) == IF IsFinite(x) THEN Num(x.num \div x.den) ELSE x
Ceil(x) == IF IsFinite(x) THEN Num(-((-x.num) \div x.den)) ELSE x
\* a % b for integers a >= 0 and b
Remainder(a, b) == IF b = 0 THEN NaN ELSE Num(a % Abs(b))

(***************************************************************************)
(* getAttentionScore, for an integer position or NaN.  The comparisons of  *)
(* the source (against 0.15, 0.85, 0.65) are decided on the rationals,     *)
(* which agrees with the doubles for the operands of the model: an integer *)
(* quotient p / S is below the double 0.15 exactly when 20 p < 3 S.        *)
(***************************************************************************)
\* 0.95 - (normalizedPos * 0.5), times 40 * chunkSize
FirstZone(p, S) == 38 * S - 20 * p
\* 0.7 + ((normalizedPos - 0.85) * 1.5), times 40 * chunkSize
LastZone(p, S) == 60 * p - 23 * S
\* 0.55 + (Math.abs(normalizedPos - 0.5) * 0.4) : a steeper middle zone.
MiddleZoneSteep(p, S) == 22 * S + 8 * Abs(2 * p - S)
\* 0.55 + (Math.abs(normalizedPos - 0.5) * 0.3), times 40 * chunkSize
MiddleZone(p, S) == 22 * S + 6 * Abs(2 * p - S)
ScoreDen(S) == 40 * S

\* normalizedPos < 0.15 and normalizedPos > 0.85, for chunkSize # 0
InFirstZone(p, S) == IF S > 0 THEN 20 * p < 3 * S ELSE 20 * p > 3 * S
InLastZone(p, S) == IF S > 0 THEN 20 * p > 17 * S ELSE 20 * p < 17 * S

getAttentionScore(positionInChunk, chunkSz) ==
    LET p == positionInChunk.num
        zone == IF InFirstZone(p, chunkSz) THEN FirstZone(p, chunkSz)
                ELSE IF InLastZone(p, chunkSz) THEN LastZone(p, chunkSz)
                ELSE MiddleZone(p, chunkSz)
    IN  \* NaN fails both comparisons and the middle formula keeps it NaN
        IF ~IsFinite(positionInChunk) THEN NaN
        \* 0 / 0 is NaN; p / 0 is Infinity, which the last-zone formula keeps
        ELSE IF chunkSz = 0 THEN Quotient(p, 0)
        ELSE IF chunkSz > 0 THEN [num |-> zone, den |-> ScoreDen(chunkSz)]
        ELSE [num |-> -zone, den |-> -ScoreDen(chunkSz)]

\* Comparisons of a rational score x (positive denominator) with n / d.
ScoreLess(x, n, d) == x.num * d < n * x.den
ScoreEq(x, n, d) == x.num * d = n * x.den
ScoreAtMost(x, n, d) == x.num * d <= n * x.den

(***************************************************************************)
(* Calls of getAttentionScore at the positions 0 <= p < S of a chunk.      *)
(***************************************************************************)
MaxAttnChunk == 40

InitAttn ==
    /\ content = <<>> /\ chunkSize = 100 /\ activeTab = "overview"
    /\ analysis = NULL /\ hints = <<>>
    /\ \E S \in 1..MaxAttnChunk, p \in 0..(MaxAttnChunk - 1) :
         /\ p < S
         /\ input = [positionInChunk |-> p, chunkSize |-> S]
    /\ remaining = <<>> /\ tokens = <<>>
    /\ output = NaN
    /\ pc = "call"

GetAttentionScore ==
    /\ pc = "call"
    /\ output' = getAttentionScore(Num(input.positionInChunk), input.chunkSize)
    /\ pc' = "done"
    /\ UNCHANGED <<uiVars, input, remaining, tokens>>

NextAttn == GetAttentionScore

SpecAttn == InitAttn /\ [][NextAttn]_vars

(***************************************************************************)
(* chunkContent: the for loop from index i (1-based) on, with the locals   *)
(* of the source as accumulators.                                          *)
(***************************************************************************)
\* The loop with `currentChunk.length > chunkSize` for its `>=`.
RECURSIVE ChunkLoopGreater(_, _, _, _, _, _, _)
ChunkLoopGreater(toks, chunkSz, i, chunks, currentChunk, currentText, tokenIndex) ==
    IF i > Len(toks) THEN chunks
    ELSE LET cc == Append(currentChunk, toks[i])
             ct == currentText \o toks[i]
         IN  IF Len(cc) > chunkSz \/ i = Len(toks)
             THEN ChunkLoopGreater(toks, chunkSz, i + 1,
                      Append(chunks, [tokens |-> cc, text |-> ct,
                                      startToken |-> tokenIndex,
                                      endToken |-> tokenIndex + Len(cc) - 1,
                                      tokenCount |-> Len(cc)]),
                      <<>>, <<>>, tokenIndex + Len(cc))
             ELSE ChunkLoopGreater(toks, chunkSz, i + 1, chunks, cc, ct, tokenIndex)

RECURSIVE ChunkLoop(_, _, _, _, _, _, _)
ChunkLoop(toks, chunkSz, i, chunks, currentChunk, currentText, tokenIndex) ==
    IF i > Len(toks) THEN chunks
    ELSE LET cc == Append(currentChunk, toks[i])
             ct == currentText \o toks[i]
         IN  IF Len(cc) >= chunkSz \/ i = Len(toks)
             THEN ChunkLoop(toks, chunkSz, i + 1,
                      Append(chunks, [tokens |-> cc, text |-> ct,
                                      startToken |-> tokenIndex,
                                      endToken |-> tokenIndex + Len(cc) - 1,
                                      tokenCount |-> Len(cc)]),
                      <<>>, <<>>, tokenIndex + Len(cc))
             ELSE ChunkLoop(toks, chunkSz, i + 1, chunks, cc, ct, tokenIndex)

chunkContentGreater(text, toks, chunkSz) ==
    ChunkLoopGreater(toks, chunkSz, 1, <<>>, <<>>, <<>>, 0)

chunkContent(text, toks, chunkSz) ==
    ChunkLoop(toks, chunkSz, 1, <<>>, <<>>, <<>>, 0)

(***************************************************************************)
(* Calls of chunkContent on the sequences of at most MaxTokens tokens and  *)
(* the chunk sizes 1..MaxSmallChunk.                                       *)
(***************************************************************************)
MaxTokens == 6
MaxSmallChunk == 4

SomeTokens == { <<"a">>, <<" ">>, <<"A", "b">> }

RECURSIVE TokenSeqs(_)
TokenSeqs(n) ==
    IF n = 0 THEN {<<>>}
    ELSE TokenSeqs(n - 1) \cup {Append(ts, t) : ts \in TokenSeqs(n - 1), t \in SomeTokens}

InitChunk ==
    /\ content = <<>> /\ chunkSize = 100 /\ activeTab = "overview"
    /\ analysis = NULL /\ hints = <<>>
    /\ \E ts \in TokenSeqs(MaxTokens), S \in 1..MaxSmallChunk :
         input = [text |-> Concat(ts), tokens |-> ts, chunkSize |-> S]
    /\ remaining = <<>> /\ tokens = <<>>
    /\ output = <<>>
    /\ pc = "call"

ChunkContent ==
    /\ pc = "call"
    /\ output' = chunkContent(input.text, input.tokens, input.chunkSize)
    /\ pc' = "done"
    /\ UNCHANGED <<uiVars, input, remaining, tokens>>

NextChunk == ChunkContent

SpecChunk == InitChunk /\ [][NextChunk]_vars

(***************************************************************************)
(* The analysis of the TokenAnalyzer component.                            *)
(***************************************************************************)
\* s.trim()
Trim(s) ==
    LET lead == RunLen(s, SpaceChars)
        rest == Slice(s, lead)
        keep == {k \in 0..Len(rest) : k = 0 \/ rest[k] \notin SpaceChars}
    IN  SubSeq(rest, 1, CHOOSE k \in keep : \A j \in keep : j <= k)

\* s.split(re) for re = /C{n,}/ : the pieces between the leftmost, greedy
\* runs of n or more code units of class C.
RECURSIVE SplitRuns(_, _, _)
SplitRuns(s, C, n) ==
    LET at == {i \in 0..Len(s) : RunLen(Slice(s, i), C) >= n}
        i  == CHOOSE k \in at : \A j \in at : k <= j
    IN  IF at = {} THEN <<s>>
        ELSE <<SubSeq(s, 1, i)>> \o SplitRuns(Slice(s, i + RunLen(Slice(s, i), C)), C, n)

NonBlank(para) == Len(Trim(para)) > 0
NonEmpty(w) == Len(w) > 0

\* text.split(/\n+/).filter(...) : a split at every newline.
splitParagraphsAtNewline(text) == SelectSeq(SplitRuns(text, {"\n"}, 1), NonBlank)
\* text.split(/\n\n+/).filter(p => p.trim().length > 0)
splitParagraphs(text) == SelectSeq(SplitRuns(text, {"\n"}, 2), NonBlank)

\* content.split(/\s+/).length : the count without the filter.
WordCountUnfiltered(text) == Len(SplitRuns(text, SpaceChars, 1))
\* content.split(/\s+/).filter(w => w.length > 0).length
WordCount(text) == Len(SelectSeq(SplitRuns(text, SpaceChars, 1), NonEmpty))

\* The scan with the test charCount > entity.position.
RECURSIVE TokenPositionLoopPast(_, _, _, _)
TokenPositionLoopPast(gptTokens, position, i, charCount) ==
    IF i > Len(gptTokens) THEN 0
    ELSE IF charCount > position THEN i - 1
    ELSE TokenPositionLoopPast(gptTokens, position, i + 1, charCount + Len(gptTokens[i]))

\* The scan for an entity's token: the index (0-based) of the first token
\* before which charCount >= position, 0 when the loop ends without one.
RECURSIVE TokenPositionLoop(_, _, _, _)
TokenPositionLoop(gptTokens, position, i, charCount) ==
    IF i > Len(gptTokens) THEN 0
    ELSE IF charCount >= position THEN i - 1
    ELSE TokenPositionLoop(gptTokens, position, i + 1, charCount + Len(gptTokens[i]))

\* attention < 0.65
IsLowAttention(attention) == IsFinite(attention) /\ 100 * attention.num < 65 * attention.den

EntityAnalysis(entity, gptTokens, chunkSz) ==
    LET tokenPosition == TokenPositionLoop(gptTokens, entity.position, 1, 0)
        positionInChunk == Remainder(tokenPosition, chunkSz)
        attention == getAttentionScore(positionInChunk, chunkSz)
    IN  [text |-> entity.text, position |-> entity.position,
         tokenPosition |-> tokenPosition,
         chunkIndex |-> Floor(Quotient(tokenPosition, chunkSz)),
         positionInChunk |-> positionInChunk,
         attentionScore |-> attention,
         isLowAttention |-> IsLowAttention(attention)]

\* A record whose exceedsChunk is pTokens.length >= chunkSize.
ParagraphRecordAtLeast(para, idx, chunkSz, pTokens) ==
    [index |-> idx, text |-> para, tokenCount |-> Len(pTokens),
     exceedsChunk |-> Len(pTokens) >= chunkSz,
     chunksRequired |-> Ceil(Quotient(Len(pTokens), chunkSz))]
\* One record of paragraphAnalysis, pTokens being approximateTokenize(para).
ParagraphRecord(para, idx, chunkSz, pTokens) ==
    [index |-> idx, text |-> para, tokenCount |-> Len(pTokens),
     exceedsChunk |-> Len(pTokens) > chunkSz,
     chunksRequired |-> Ceil(Quotient(Len(pTokens), chunkSz))]

ParagraphAnalysis(para, idx, chunkSz) ==
    ParagraphRecord(para, idx, chunkSz, approximateTokenize(para))

Max3(a, b, c) == Max(a, Max(b, c))
Min3(a, b, c) == Min(a, Min(b, c))

\* Math.round(x * 100): the nearest integer, a half rounded up.  The
\* doubles agree with the rationals for the token counts of the model.
RoundPercent(x) ==
    IF IsFinite(x) THEN Num((200 * x.num + x.den) \div (2 * x.den)) ELSE x

\* x.toFixed(3), in thousandths.
ToFixed3(x) ==
    IF IsFinite(x) THEN Num((2000 * x.num + x.den) \div (2 * x.den)) ELSE x

\* The two thresholds exchanged: >= 0.65 ? 'optimal' : >= 0.75 ? 'acceptable' : 'verbose'
EfficiencySwapped(wordsPerToken) ==
    IF wordsPerToken = Infinity
       \/ (IsFinite(wordsPerToken) /\ 20 * wordsPerToken.num >= 13 * wordsPerToken.den)
    THEN "optimal"
    ELSE "verbose"
\* wordsPerToken >= 0.75 ? 'optimal' : wordsPerToken >= 0.65 ? 'acceptable' : 'verbose'
Efficiency(wordsPerToken) ==
    IF wordsPerToken = Infinity
       \/ (IsFinite(wordsPerToken) /\ 4 * wordsPerToken.num >= 3 * wordsPerToken.den)
    THEN "optimal"
    ELSE IF IsFinite(wordsPerToken) /\ 20 * wordsPerToken.num >= 13 * wordsPerToken.den
    THEN "acceptable"
    ELSE "verbose"

\* !content : the test without the trim
BlankUntrimmed(text) == text = <<>>
\* no test at all: every text is analysed
NeverBlank(text) == FALSE
\* !content.trim()
Blank(text) == Trim(text) = <<>>

\* The value the callback returns for a non-blank text, from the token
\* sequences, the paragraphs, the entities and the word count it computed.
Aggregate(text, chunkSz, gptTokens, claudeTokens, geminiTokens, paragraphs, entities, wordCount) ==
    [gptTokens |-> Len(gptTokens),
     claudeTokens |-> Len(claudeTokens),
     geminiTokens |-> Len(geminiTokens),
     variance |-> RoundPercent(Quotient(
                      Max3(Len(gptTokens), Len(claudeTokens), Len(geminiTokens))
                      - Min3(Len(gptTokens), Len(claudeTokens), Len(geminiTokens)),
                      Len(gptTokens))),
     paragraphs |-> [k \in 1..Len(paragraphs) |->
                       ParagraphAnalysis(paragraphs[k], k - 1, chunkSz)],
     chunks |-> chunkContent(text, gptTokens, chunkSz),
     entities |-> [k \in 1..Len(entities) |->
                     EntityAnalysis(entities[k], gptTokens, chunkSz)],
     wordCount |-> wordCount,
     wordsPerToken |-> ToFixed3(Quotient(wordCount, Len(gptTokens))),
     efficiency |-> Efficiency(Quotient(wordCount, Len(gptTokens)))]

\* The callback of useMemo(..., [content, chunkSize]).
Analyze(text, chunkSz) ==
    IF Blank(text) THEN NULL
    ELSE Aggregate(text, chunkSz,
                   approximateTokenize(text), approximateClaudeTokenize(text),
                   approximateGeminiTokenize(text), splitParagraphs(text),
                   extractEntities(text), WordCount(text))

(***************************************************************************)
(* The hints: the callback of useMemo(..., [analysis, chunkSize]).  A hint *)
(* is its type and the number its message reports.                         *)
(***************************************************************************)
InFirstChunk(e) == IsFinite(e.chunkIndex) /\ e.chunkIndex.num = 0
InLaterChunk(e) == e.chunkIndex = Infinity \/ (IsFinite(e.chunkIndex) /\ e.chunkIndex.num > 0)
LowAttention(e) == e.isLowAttention
ExceedsChunk(para) == para.exceedsChunk

\* The hints with the chunk-count rule evaluated before the efficiency rule.
HintsChunkCountFirst(a, chunkSz) ==
    IF a = NULL THEN <<>>
    ELSE
      (IF Len(SelectSeq(a.entities, InLaterChunk)) > Len(SelectSeq(a.entities, InFirstChunk))
       THEN <<[type |-> "warning", rule |-> "buried", count |-> Len(SelectSeq(a.entities, InLaterChunk))]>>
       ELSE <<>>)
      \o (IF Len(SelectSeq(a.entities, LowAttention)) > 0
          THEN <<[type |-> "critical", rule |-> "lowAttention", count |-> Len(SelectSeq(a.entities, LowAttention))]>>
          ELSE <<>>)
      \o (IF Len(SelectSeq(a.paragraphs, ExceedsChunk)) > 0
          THEN <<[type |-> "warning", rule |-> "longParagraphs", count |-> Len(SelectSeq(a.paragraphs, ExceedsChunk))]>>
          ELSE <<>>)
      \o (IF Len(a.chunks) > 5
          THEN <<[type |-> "info", rule |-> "chunkCount", count |-> Len(a.chunks)]>>
          ELSE <<>>)
      \o (IF a.efficiency = "verbose"
          THEN <<[type |-> "optimize", rule |-> "efficiency", count |-> a.wordsPerToken.num]>>
          ELSE <<>>)
      \o (IF chunkSz > 120
          THEN <<[type |-> "optimize", rule |-> "chunkSize", count |-> chunkSz]>>
          ELSE <<>>)
\* const hints = useMemo(() => { ... }, [analysis, chunkSize])
Hints(a, chunkSz) ==
    IF a = NULL THEN <<>>
    ELSE
      (IF Len(SelectSeq(a.entities, InLaterChunk)) > Len(SelectSeq(a.entities, InFirstChunk))
       THEN <<[type |-> "warning", rule |-> "buried", count |-> Len(SelectSeq(a.entities, InLaterChunk))]>>
       ELSE <<>>)
      \o (IF Len(SelectSeq(a.entities, LowAttention)) > 0
          THEN <<[type |-> "critical", rule |-> "lowAttention", count |-> Len(SelectSeq(a.entities, LowAttention))]>>
          ELSE <<>>)
      \o (IF Len(SelectSeq(a.paragraphs, ExceedsChunk)) > 0
          THEN <<[type |-> "warning", rule |-> "longParagraphs", count |-> Len(SelectSeq(a.paragraphs, ExceedsChunk))]>>
          ELSE <<>>)
      \o (IF a.efficiency = "verbose"
          THEN <<[type |-> "optimize", rule |-> "efficiency", count |-> a.wordsPerToken.num]>>
          ELSE <<>>)
      \o (IF Len(a.chunks) > 5
          THEN <<[type |-> "info", rule |-> "chunkCount", count |-> Len(a.chunks)]>>
          ELSE <<>>)
      \o (IF chunkSz > 120
          THEN <<[type |-> "optimize", rule |-> "chunkSize", count |-> chunkSz]>>
          ELSE <<>>)

(***************************************************************************)
(* The component: its three pieces of state and the two memoized values,   *)
(* recomputed in the render that follows a change of state.                *)
(***************************************************************************)
MaxContentLen == 3

\* The code units typed into the input area.
ContentChars == {"A", "b", " ", "\n", "."}
\* The chunk sizes of the buttons, with a zero among them.
ChunkSizesWithZero == {0, 90, 100, 120, 256, 512}
\* [90, 100, 120, 256, 512].map(size => <button onClick={() => setChunkSize(size)}>)
ChunkSizes == {90, 100, 120, 256, 512}
Tabs == {"overview", "chunks", "entities", "paragraphs"}

\* The values the input area can hand to onChange from the current text:
\* a code unit typed at its end, its last code unit deleted, all of it deleted.
Edits(text) ==
    {Append(text, c) : c \in IF Len(text) < MaxContentLen THEN ContentChars ELSE {}}
    \cup (IF text = <<>> THEN {} ELSE {SubSeq(text, 1, Len(text) - 1), <<>>})

Init ==
    /\ content = <<>>
    /\ chunkSize = 100
    /\ activeTab = "overview"
    /\ analysis = Analyze(<<>>, 100)
    /\ hints = Hints(Analyze(<<>>, 100), 100)
    /\ input = NULL /\ remaining = <<>> /\ tokens = <<>> /\ output = NULL
    /\ pc = "render"

\* A render whose memoized values depend on the content alone:
\* useMemo(..., [content]).
RenderContentOnly ==
    LET changed == content' # content
        result == Analyze(content', chunkSize')
    IN  /\ analysis' = IF changed THEN result ELSE analysis
        /\ hints' = IF changed THEN Hints(result, chunkSize') ELSE hints

\* The render after a change of state: a memoized value is recomputed when
\* one of its dependencies changed and kept otherwise.
Render ==
    LET changed == <<content', chunkSize'>> # <<content, chunkSize>>
        result == Analyze(content', chunkSize')
    IN  /\ analysis' = IF changed THEN result ELSE analysis
        /\ hints' = IF changed THEN Hints(result, chunkSize') ELSE hints

\* onChange={(e) => setContent(e.target.value)}
SetContent ==
    /\ \E value \in Edits(content) : content' = value
    /\ UNCHANGED <<chunkSize, activeTab, callVars>>
    /\ Render

\* onClick={() => setChunkSize(size)}
SetChunkSize ==
    /\ \E size \in ChunkSizes : chunkSize' = size
    /\ chunkSize' # chunkSize
    /\ UNCHANGED <<content, activeTab, callVars>>
    /\ Render

\* onClick={() => setActiveTab(tab)}, of the tab bar shown with an analysis
SetActiveTab ==
    /\ analysis # NULL
    /\ \E tab \in Tabs : activeTab' = tab
    /\ activeTab' # activeTab
    /\ UNCHANGED <<content, chunkSize, callVars>>
    /\ Render

Next == SetContent \/ SetChunkSize \/ SetActiveTab

Spec == Init /\ [][Next]_vars

(***************************************************************************)
(* The two callbacks as functions of (content, chunkSize): one run of the  *)
(* analysis and of the hints on a text of at most MaxParts parts.  The     *)
(* callbacks take the chunk size as a number, so the longer texts are run  *)
(* with the sizes 1..MaxPipeChunk, for which a few tokens span several     *)
(* chunks, and the texts of at most MaxShortParts parts with the sizes of  *)
(* the buttons.                                                            *)
(***************************************************************************)
MaxParts == 5
MaxPipeChunk == 3
MaxShortParts == 4

\* Texts of words and spaces, and texts of paragraphs.
WordParts == { <<"b">>, <<" ">>, <<"A", "B", "C">>, <<"C", "d">> }
ParagraphParts == { <<"b">>, <<" ">>, <<"\n">> }

RECURSIVE PartTexts(_, _)
PartTexts(parts, n) ==
    IF n = 0 THEN {<<>>}
    ELSE PartTexts(parts, n - 1) \cup {t \o q : t \in PartTexts(parts, n - 1), q \in parts}

PipeTexts(n) == PartTexts(WordParts, n) \cup PartTexts(ParagraphParts, n)

InitPipe ==
    /\ content = <<>> /\ chunkSize = 100 /\ activeTab = "overview"
    /\ analysis = NULL /\ hints = <<>>
    /\ \/ \E text \in PipeTexts(MaxParts), S \in 1..MaxPipeChunk :
            input = [text |-> text, chunkSize |-> S]
       \/ \E text \in PipeTexts(MaxShortParts), S \in ChunkSizes :
            input = [text |-> text, chunkSize |-> S]
    /\ remaining = <<>> /\ tokens = <<>>
    /\ output = NULL
    /\ pc = "call"

\* The analysis callback, then the hints callback on its result.
RunAnalysis ==
    /\ pc = "call"
    /\ LET result == Analyze(input.text, input.chunkSize)
       IN  output' = [analysis |-> result, hints |-> Hints(result, input.chunkSize)]
    /\ pc' = "done"
    /\ UNCHANGED <<uiVars, input, remaining, tokens>>

\* A call of splitParagraphs on the text.
SplitParagraphs ==
    /\ pc = "call"
    /\ output' = [paragraphs |-> splitParagraphs(input.text)]
    /\ pc' = "split"
    /\ UNCHANGED <<uiVars, input, remaining, tokens>>

NextPipe == RunAnalysis \/ SplitParagraphs

SpecPipe == InitPipe /\ [][NextPipe]_vars

(***************************************************************************)
(* Claims about the tokenizers (SpecTok).                                  *)
(***************************************************************************)

\* C1: for each of the three tokenizers and every input (the empty string,
\* pure whitespace and texts without alphanumerics included), the returned
\* tokens concatenated in order are the input.
TokenizerCompleteness ==
    pc = "done" => Concat(output) = input.text

\* A call that split a long word, and one on a text without alphanumerics.
TokenizerCompletenessWitness ==
    /\ pc = "done"
    /\ \/ /\ input.tokenizer = "gpt"
          /\ input.text = <<"A">> \o Repeat("a", MaxRun) \o <<" ">>
          /\ Len(output) = 3
       \/ /\ input.text = Repeat(" ", 2) \o Repeat("#", 2)
          /\ Len(output) = 3

TokensNonEmptyAndBounded ==
    /\ \A k \in 1..Len(tokens) : Len(tokens[k]) >= 1
    /\ Len(tokens) + Len(remaining) <= Len(input.text)

\* C3: every iteration of a tokenizer's scan loop shortens `remaining` by at
\* least one code unit (so the loop ends after at most Len(text) iterations),
\* every token pushed is non-empty, and there are never more tokens than
\* code units consumed.
TokenizerTermination ==
    [][/\ (pc = "loop" /\ pc' = "loop" => Len(remaining') < Len(remaining))
       /\ TokensNonEmptyAndBounded']_vars

\* A run of identical symbols that no pattern matches, scanned to its end
\* one code unit per iteration by the single-character fallback.
TokenizerTerminationWitness ==
    /\ pc = "done"
    /\ input.text = Repeat("_", MaxRun) \o Repeat("A", MaxRun)
    /\ Len(output) = 2 * MaxRun

(***************************************************************************)
(* Claims about extractEntities (SpecEnt).                                 *)
(***************************************************************************)

\* Offset i is the very start of the text or directly follows ". ", "! "
\* or "? ".
SentenceStart(text, i) ==
    \/ i = 0
    \/ i >= 2 /\ text[i] = " " /\ text[i - 1] \in Terminators

\* An entity of the capitalized-phrase scan: the acronym scan returns
\* capitals only.
HasLower(t) == \E m \in 1..Len(t) : t[m] \in LowerChars

\* C6: the capitalized-phrase scan returns no capitalized word that stands
\* at the very start of the text or directly after ". ", "! " or "? ".
SentenceInitialWordExcluded ==
    pc = "done" =>
        \A k \in 1..Len(output) :
            HasLower(output[k].text) => ~SentenceStart(input.text, output[k].position)

Acronym == <<"A", "B">>
Phrase == <<"C", "d", "e", " ", "F", "g">>

\* The word w stands at offset i of the text, on word boundaries.
StandsAt(text, w, i) ==
    /\ i + Len(w) <= Len(text)
    /\ SubSeq(text, i + 1, i + Len(w)) = w
    /\ WordBoundary(text, i)
    /\ WordBoundary(text, i + Len(w))

\* A capitalized word and whitespace directly precede offset i.
AfterCapitalized(text, i) ==
    \E j \in 0..(i - 1) :
        /\ WordBoundary(text, j)
        /\ MatchCapName(Slice(text, j)) # NoMatch
        /\ j + MatchCapName(Slice(text, j)) < i
        /\ \A m \in (j + MatchCapName(Slice(text, j)) + 1)..i : text[m] \in SpaceChars

\* Whitespace and a capitalized word directly follow offset e.
BeforeCapitalized(text, e) ==
    /\ RunLen(Slice(text, e), SpaceChars) >= 1
    /\ MatchCapName(Slice(text, e + RunLen(Slice(text, e), SpaceChars))) # NoMatch

\* A terminator, then whitespace or nothing, directly precedes offset i.
AfterTerminator(text, i) ==
    \E q \in 1..i :
        /\ text[q] \in Terminators
        /\ \A m \in (q + 1)..i : text[m] \in SpaceChars

\* The multi-word phrase stands at offset i as a whole capitalized phrase,
\* not at a sentence start.
PhraseInSentence(text, i) ==
    /\ StandsAt(text, Phrase, i)
    /\ i > 0
    /\ ~AfterTerminator(text, i)
    /\ ~AfterCapitalized(text, i)
    /\ ~BeforeCapitalized(text, i + Len(Phrase))
    /\ ~AfterCapitalized(text, i)
    /\ ~BeforeCapitalized(text, i + Len(Phrase))

Returned(w, i) ==
    \E k \in 1..Len(output) : output[k] = [text |-> w, position |-> i]

\* C7: for a text that holds a standalone acronym and a multi-word
\* capitalized phrase not at a sentence start, extractEntities returns an
\* entity for each occurrence of either, with the literal text and the
\* offset of the occurrence.
AcronymAndPhraseReturned ==
    (/\ pc = "done"
     /\ \E i \in 0..Len(input.text) : StandsAt(input.text, Acronym, i)
     /\ \E i \in 0..Len(input.text) : PhraseInSentence(input.text, i))
    => \A i \in 0..Len(input.text) :
          /\ StandsAt(input.text, Acronym, i) => Returned(Acronym, i)
          /\ PhraseInSentence(input.text, i) => Returned(Phrase, i)

(***************************************************************************)
(* Claims about chunkContent (SpecChunk).                                  *)
(***************************************************************************)

\* C2: for N tokens and a chunk size S >= 1 chunkContent returns ceil(N / S)
\* chunks; every chunk but the last has S tokens and the last has N mod S
\* (S when S divides N); chunk k starts at token k * S and ends at
\* startToken + tokenCount - 1, holds exactly those tokens, and the chunks'
\* texts concatenated are the tokens concatenated.
ChunkPartition ==
    pc = "done" =>
        LET N == Len(input.tokens)
            S == input.chunkSize
            count == Len(output)
        IN  /\ count = (N + S - 1) \div S
            /\ \A k \in 1..count :
                 /\ output[k].tokenCount =
                        IF k < count THEN S
                        ELSE IF N % S = 0 THEN S ELSE N % S
                 /\ output[k].startToken = (k - 1) * S
                 /\ output[k].endToken = output[k].startToken + output[k].tokenCount - 1
                 /\ output[k].tokens =
                        SubSeq(input.tokens, output[k].startToken + 1, output[k].endToken + 1)
                 /\ output[k].text = Concat(output[k].tokens)
            /\ Concat([k \in 1..count |-> output[k].text]) = Concat(input.tokens)

\* A call that returned full chunks and a shorter last one.
ChunkPartitionWitness ==
    /\ pc = "done"
    /\ Len(output) >= 3
    /\ output[Len(output)].tokenCount < input.chunkSize
    /\ input.chunkSize >= 2

(***************************************************************************)
(* Claims about getAttentionScore (SpecAttn).                              *)
(***************************************************************************)
AtLowerBoundary == 20 * input.positionInChunk = 3 * input.chunkSize
AtUpperBoundary == 20 * input.positionInChunk = 17 * input.chunkSize
ZoneScore(zone) == [num |-> zone, den |-> ScoreDen(input.chunkSize)]

ZoneTable ==
    pc = "done" =>
        LET p == input.positionInChunk
            S == input.chunkSize
        IN  /\ ~ScoreLess(output, 55, 100) /\ ScoreAtMost(output, 95, 100)
            /\ InFirstZone(p, S) =>
                 /\ ~ScoreAtMost(output, 875, 1000)
                 /\ p = 0 => ScoreEq(output, 95, 100)
            /\ InLastZone(p, S) =>
                 /\ ~ScoreAtMost(output, 70, 100)
                 /\ ScoreLess(output, 925, 1000)
            /\ (~InFirstZone(p, S) /\ ~InLastZone(p, S)) =>
                 /\ ScoreAtMost(output, 70, 100)
                 /\ 2 * p = S => ScoreEq(output, 55, 100)
                 /\ (AtLowerBoundary \/ AtUpperBoundary) => ScoreEq(output, 70, 100)

(***************************************************************************)
(* Claims about the component (Spec).                                      *)
(***************************************************************************)
AllWhitespace(text) == \A k \in 1..Len(text) : text[k] \in SpaceChars

\* C8: when the text is empty or holds only whitespace the analysis is
\* absent and the hint list is empty; for every other text there is an
\* analysis.
BlankTextNoAnalysis ==
    /\ AllWhitespace(content) => analysis = NULL /\ hints = <<>>
    /\ ~AllWhitespace(content) => analysis # NULL

\* Whitespace has been typed, and nothing else.
BlankTextNoAnalysisWitness ==
    /\ Len(content) >= 2
    /\ AllWhitespace(content)
    /\ analysis = NULL

\* C9: in every analysis that exists the primary token count is at least 1,
\* so the variance and the words-per-token value are finite numbers, never
\* the result of a division by zero.
MetricsDefined ==
    analysis # NULL =>
        /\ analysis.gptTokens >= 1
        /\ IsFinite(analysis.variance)
        /\ IsFinite(analysis.wordsPerToken)

\* An analysis whose tokenizers disagree, with a non-zero variance.
MetricsDefinedWitness ==
    /\ analysis # NULL
    /\ analysis.variance.num > 0
    /\ analysis.wordsPerToken.num > 0

FreshResults ==
    /\ [](/\ analysis = Analyze(content, chunkSize)
          /\ hints = Hints(Analyze(content, chunkSize), chunkSize))
    /\ [][activeTab' # activeTab => analysis' = analysis /\ hints' = hints]_vars

FreshResultsWitness ==
    /\ Len(content) = MaxContentLen
    /\ chunkSize = 256
    /\ activeTab = "entities"
    /\ analysis # NULL /\ analysis.entities # <<>>
    /\ Len(hints) = 2

(***************************************************************************)
(* Claims about the analysis and the hints of one run (SpecPipe).          *)
(***************************************************************************)
\* The result of the run and its inputs.
Ran == pc = "done" /\ output.analysis # NULL
Result == output.analysis
HintTypes == [k \in 1..Len(output.hints) |-> output.hints[k].type]

\* The conditions of the six rules, read off the result.
LaterEntities == {k \in 1..Len(Result.entities) : Result.entities[k].chunkIndex.num > 0}
FirstEntities == {k \in 1..Len(Result.entities) : Result.entities[k].chunkIndex.num = 0}
LowEntities == {k \in 1..Len(Result.entities) : Result.entities[k].isLowAttention}
LongParagraphs == {k \in 1..Len(Result.paragraphs) : Result.paragraphs[k].exceedsChunk}
RuleHolds ==
    << Cardinality(LaterEntities) > Cardinality(FirstEntities),
       Cardinality(LowEntities) >= 1,
       Cardinality(LongParagraphs) >= 1,
       Result.efficiency = "verbose",
       Len(Result.chunks) > 5,
       input.chunkSize > 120 >>
RuleType == <<"warning", "critical", "warning", "optimize", "info", "optimize">>
\* The rules that hold, in the order of the rules.
RulesHolding == {r \in 1..6 : RuleHolds[r]}
Earlier(r) == {q \in RulesHolding : q < r}

\* C11: the hint list is exactly the sequence of the rules whose condition
\* holds, in the fixed order of the six rules: the hint of the rule with k
\* holding rules before it stands at place k + 1 and has the rule's type,
\* and there is no other hint; with no entity, no long paragraph, the
\* label optimal, at most 5 chunks and a chunk size of at most 120 the
\* list is empty.
HintsInRuleOrder ==
    Ran =>
      /\ Len(output.hints) = Cardinality(RulesHolding)
      /\ \A r \in RulesHolding : HintTypes[Cardinality(Earlier(r)) + 1] = RuleType[r]
      /\ (/\ Result.entities = <<>> /\ LongParagraphs = {}
          /\ Result.efficiency = "optimal" /\ Len(Result.chunks) <= 5
          /\ input.chunkSize <= 120) => output.hints = <<>>

HintsInRuleOrderWitness ==
    Ran /\ RulesHolding = {2, 3, 4, 5} /\ Len(output.hints) = 4

\* The least n with n * S >= count: ceil(count / S) for S > 0.
CeilOf(count, S) == CHOOSE n \in 0..count : n * S >= count /\ (n = 0 \/ (n - 1) * S < count)
PrimaryCount(text) == Len(approximateTokenize(text))

\* C12: in every paragraph record the token count is the primary tokenizer's
\* count for the record's text, exceedsChunk is true exactly when that
\* count is greater than the chunk size, and chunksRequired is
\* ceil(tokenCount / chunkSize); when the whole text has fewer primary
\* tokens than the chunk size there is exactly one chunk and no record
\* has exceedsChunk.
ParagraphRecordFields ==
    Ran =>
      /\ \A k \in 1..Len(Result.paragraphs) :
            LET rec == Result.paragraphs[k]
            IN  /\ rec.tokenCount = PrimaryCount(rec.text)
                /\ rec.exceedsChunk = (PrimaryCount(rec.text) > input.chunkSize)
                /\ rec.chunksRequired = Num(CeilOf(PrimaryCount(rec.text), input.chunkSize))
      /\ PrimaryCount(input.text) < input.chunkSize
           => Len(Result.chunks) = 1 /\ LongParagraphs = {}

ParagraphRecordFieldsWitness ==
    /\ Ran
    /\ input.chunkSize = 1
    /\ Len(Result.paragraphs) = 2
    /\ Result.paragraphs[1].exceedsChunk /\ Result.paragraphs[1].chunksRequired = Num(2)
    /\ Result.paragraphs[1].tokenCount = 2
    /\ ~Result.paragraphs[2].exceedsChunk /\ Result.paragraphs[2].tokenCount = 1

\* The places of the text where a word starts: a code unit that is not
\* whitespace, at the start of the text or after whitespace.
WordStarts(text) ==
    {i \in 1..Len(text) : text[i] \notin SpaceChars /\ (i = 1 \/ text[i - 1] \in SpaceChars)}
Words == Cardinality(WordStarts(input.text))
\* The label of the ratio w / t by the thresholds 0.75 and 0.65.
LabelOf(w, t) ==
    IF 4 * w >= 3 * t THEN "optimal"
    ELSE IF 20 * w >= 13 * t THEN "acceptable"
    ELSE "verbose"

\* C13: wordCount is the number of non-empty whitespace-delimited
\* substrings of the text, and the efficiency label depends on
\* wordCount / primaryTokenCount alone: optimal when the ratio is at least
\* 0.75, acceptable when it is at least 0.65 and below 0.75, verbose
\* otherwise.
EfficiencyLabel ==
    Ran =>
      /\ Result.wordCount = Words
      /\ Result.gptTokens = PrimaryCount(input.text)
      /\ Result.efficiency = LabelOf(Words, PrimaryCount(input.text))

EfficiencyLabelWitness ==
    /\ Ran /\ Result.efficiency = "acceptable"
    /\ Result.wordCount = 2 /\ Result.gptTokens = 3
    /\ Len(input.text) = 4

\* A separator is a run of two or more newlines: the newlines that stand
\* next to another newline.
IsSeparator(text, i) ==
    /\ text[i] = "\n"
    /\ (i > 1 /\ text[i - 1] = "\n") \/ (i < Len(text) /\ text[i + 1] = "\n")
\* The maximal runs of text between separators, by their first place.
RunStarts(text) ==
    {i \in 1..Len(text) : ~IsSeparator(text, i) /\ (i = 1 \/ IsSeparator(text, i - 1))}
RunEnd(text, i) ==
    CHOOSE j \in i..Len(text) :
        /\ \A m \in i..j : ~IsSeparator(text, m)
        /\ (j = Len(text) \/ IsSeparator(text, j + 1))
RunAt(text, i) == SubSeq(text, i, RunEnd(text, i))
\* The runs that are not empty after trimming, in order of appearance.
KeptStarts(text) == {i \in RunStarts(text) : Trim(RunAt(text, i)) # <<>>}
KeptStart(text, k) ==
    CHOOSE i \in KeptStarts(text) : Cardinality({j \in KeptStarts(text) : j < i}) = k - 1
KeptRuns(text) == [k \in 1..Cardinality(KeptStarts(text)) |-> RunAt(text, KeptStart(text, k))]
TrimmedRuns(text) == [k \in 1..Cardinality(KeptStarts(text)) |-> Trim(RunAt(text, KeptStart(text, k)))]
\* The paragraph records carry the texts ps, in order, with their counts.
RecordsOf(ps) ==
    /\ Len(Result.paragraphs) = Len(ps)
    /\ \A k \in 1..Len(ps) :
         /\ Result.paragraphs[k].index = k - 1
         /\ Result.paragraphs[k].text = ps[k]
         /\ Result.paragraphs[k].tokenCount = PrimaryCount(ps[k])

\* C15 as claimed: splitParagraphs returns the runs between separators of
\* two or more newlines, each trimmed, without those empty after trimming,
\* and the records carry the trimmed paragraphs and their token counts.
ParagraphsTrimmed ==
    /\ pc = "split" => output.paragraphs = TrimmedRuns(input.text)
    /\ Ran => RecordsOf(TrimmedRuns(input.text))

\* C15 amended: splitParagraphs returns, in order of appearance, the
\* maximal runs between separators of two or more newlines that are not
\* empty after trimming, each as it stands in the text, untrimmed; a text
\* that is empty or only whitespace gives the empty sequence; the records
\* carry the untrimmed paragraphs and the token counts of the untrimmed
\* paragraphs.
ParagraphsUntrimmed ==
    /\ pc = "split" =>
         /\ output.paragraphs = KeptRuns(input.text)
         /\ Trim(input.text) = <<>> => output.paragraphs = <<>>
    /\ Ran => RecordsOf(KeptRuns(input.text))

ParagraphsUntrimmedWitness ==
    /\ Ran
    /\ Len(Result.paragraphs) = 2
    /\ Result.paragraphs[1].text = <<"b", " ">>
    /\ Result.paragraphs[1].tokenCount = 2
    /\ Result.paragraphs[2].text = <<"b">>

\* The offset at which token i (0-based) of toks starts: the total length
\* of the tokens before it.
StartOf(toks, i) == Len(Concat(SubSeq(toks, 1, i)))
\* The token indices at which the scan for an offset can stop.
Reaching(toks, offset) == {i \in 0..(Len(toks) - 1) : StartOf(toks, i) >= offset}
FirstReaching(toks, offset) ==
    LET at == Reaching(toks, offset)
    IN  IF at = {} THEN 0 ELSE CHOOSE i \in at : \A j \in at : i <= j

\* C16: the entity records are those of the extracted entities, in order;
\* tokenPosition is the smallest token index whose preceding tokens have a
\* total length of at least the entity's offset, and 0 when there is none;
\* chunkIndex = floor(tokenPosition / chunkSize), positionInChunk =
\* tokenPosition mod chunkSize, attentionScore is getAttentionScore of
\* these two, and isLowAttention is true exactly when the score is below
\* 0.65.
EntityRecordFields ==
    Ran =>
      LET toks == approximateTokenize(input.text)
          found == extractEntities(input.text)
          S == input.chunkSize
      IN  /\ Len(Result.entities) = Len(found)
          /\ \A k \in 1..Len(Result.entities) :
               LET e == Result.entities[k]
               IN  /\ e.text = found[k].text
                   /\ e.position = found[k].position
                   /\ e.tokenPosition = FirstReaching(toks, e.position)
                   /\ e.chunkIndex = Num(e.tokenPosition \div S)
                   /\ e.positionInChunk = Num(e.tokenPosition % S)
                   /\ e.attentionScore = getAttentionScore(Num(e.tokenPosition % S), S)
                   /\ e.isLowAttention = ScoreLess(e.attentionScore, 65, 100)

EntityRecordFieldsWitness ==
    /\ Ran
    /\ input.chunkSize = 3
    /\ \E k \in 1..Len(Result.entities) :
         /\ Result.entities[k].tokenPosition = 4
         /\ Result.entities[k].chunkIndex = Num(1)
         /\ Result.entities[k].positionInChunk = Num(1)
         /\ Result.entities[k].isLowAttention
    /\ \E k \in 1..Len(Result.entities) :
         /\ Result.entities[k].tokenPosition = 0
         /\ ~Result.entities[k].isLowAttention

\* C17: every uppercase letter of the text is the first code unit of a
\* primary token; hence for every entity tokenPosition is a token index,
\* the token at tokenPosition starts exactly at the entity's offset, and
\* the scan finds an index (the default of 0 is not taken) whenever the
\* offset is greater than 0.
EntitiesOnTokenBoundaries ==
    Ran =>
      LET toks == approximateTokenize(input.text)
          starts == {StartOf(toks, i) : i \in 0..(Len(toks) - 1)}
      IN  /\ \A c \in 1..Len(input.text) :
               input.text[c] \in UpperChars => (c - 1) \in starts
          /\ \A k \in 1..Len(Result.entities) :
               LET e == Result.entities[k]
               IN  /\ e.tokenPosition \in 0..(Len(toks) - 1)
                   /\ StartOf(toks, e.tokenPosition) = e.position
                   /\ e.position > 0 => Reaching(toks, e.position) # {}

EntitiesOnTokenBoundariesWitness ==
    /\ Ran
    /\ \E k \in 1..Len(Result.entities) :
         /\ Result.entities[k].position = 1
         /\ Result.entities[k].tokenPosition = 1
         /\ input.text[1] \in LowerChars
    /\ \E k \in 1..Len(Result.entities) : Result.entities[k].tokenPosition >= 4

\* C18: for every text that is analysed the primary token count is at
\* least 2 * wordCount - 1; the label is verbose whenever the text has
\* three or more words, and optimal only when the whole text is one word
\* that is one primary token.
TokensOutnumberWords ==
    Ran =>
      /\ Result.gptTokens >= 2 * Result.wordCount - 1
      /\ Result.wordCount = Words
      /\ Words >= 3 => Result.efficiency = "verbose"
      /\ Result.efficiency = "optimal"
           => /\ Words = 1
              /\ WordStarts(input.text) = {1}
              /\ approximateTokenize(input.text) = <<input.text>>

TokensOutnumberWordsWitness ==
    /\ Ran
    /\ Result.wordCount = 3 /\ Result.gptTokens = 5
    /\ Result.efficiency = "verbose"

====
